---- MODULE Spec2Model ----
(***************************************************************************)
(* A model of the Grothendieck OCR tools:                                  *)
(*   - transcribe_with_retry of analyze.py (the Retry Controller);         *)
(*   - the transcribe command of transcribe.py (the Batch Runner, with the *)
(*     progress file and the result artifacts it writes);                  *)
(*   - main of download_grothendieck.py (the bulk downloader and its       *)
(*     pool of worker threads).                                            *)
(* Texts the code inspects (error messages, the --pages argument) are      *)
(* sequences of one-character strings, so that searching and parsing them  *)
(* is computed as the code computes it.                                    *)
(***************************************************************************)
EXTENDS Integers, Sequences, FiniteSets, TLC

VARIABLES
    \* ---- transcribe_with_retry (analyze.py) ----
    r_pc,          \* "idle" | "loop" | "returned" | "raised"
    max_retries,   \* the max_retries argument of the call in progress
    attempt,       \* the loop variable: index of the next iteration (0-based)
    result,        \* the local variable result (Unbound before the first call)
    returned,      \* the value the call returned (Unbound while it runs)
    calls,         \* history: Transcription Client calls made by this call
    resps,         \* history: the results the client gave, in order
    waits          \* history: the time.sleep calls, in order

VARIABLES
    \* ---- the files the transcribe command reads and writes ----
    npages,          \* the number of pages of each PDF on disk
    progress_file,   \* PROGRESS_FILE: output/progress.json
    outputs,         \* the Batch Records written to output/json and output/text
    now,             \* datetime.now(), a clock that ticks once per run
    \* ---- one run of the transcribe command (transcribe.py) ----
    pc,              \* where the run is: "idle" before the first run, then
                     \* "loop" | "page" | "save_results" | "update" | "handler"
                     \* while it runs, "done" | "exited" | "crashed" | "killed" after
    args,            \* the command's arguments and the API keys in the environment
    pdf_files,       \* the list pdf_files
    idx,             \* position of the for loop over pdf_files (1-based)
    start_page,
    end_page,        \* <<>> is None, <<m>> the integer m
    progress,        \* the dict progress
    images,          \* page numbers of the images kept by the page filter
    img,             \* position of the for loop over images (1-based)
    results,         \* the dict results of the document being processed
    err,             \* str(e) of the exception the handler is about to record
    exit_code,       \* -1 while the run is on, then the process's exit code
    total_success,
    total_failed,
    \* ---- history of the current run, and what the environment may still do ----
    loaded,          \* names in progress["completed"] right after line 175
    raster_calls,    \* pdf_to_images calls per document name
    client_calls,    \* Transcription Client calls per document name
    progress_writes, \* save_progress calls per document name
    page_calls,      \* client calls made for each entry of results["pages"]
    skipped,         \* names the loop skipped at lines 192-194
    finished,        \* names whose completed entry this run saved to the file
    prev_finished,   \* finished, of the run before this one
    prev_end,        \* pc at the end of the run before this one
    runs_left,       \* runs the operator may still start
    faults_left      \* unexpected faults the environment may still raise

VARIABLES
    \* ---- main of download_grothendieck.py and its executor ----
    d_pc,          \* the main thread: "idle" | "submit" | "collect" | "done"
    num_threads,   \* the worker threads the executor has started
    queue,         \* the executor's work queue: indices into PDF_FILES
    in_flight,     \* indices whose download_pdf is running in a worker
    futures,       \* per index, the tuple download_pdf returned (or Pending)
    yielded,       \* indices as_completed has handed to the main thread
    disk,          \* the file names written into OUTPUT_DIR
    success,
    failed,        \* the two counters of main
    responses,     \* history: what the server did for each index
    reports        \* history: the lines main printed, per file name

retryVars == <<r_pc, max_retries, attempt, result, returned, calls, resps, waits>>

fileVars == <<npages, progress_file, outputs, now>>

runVars == <<pc, args, pdf_files, idx, start_page, end_page, progress, images, img,
             results, err, exit_code, total_success, total_failed>>

histVars == <<loaded, raster_calls, client_calls, progress_writes, page_calls,
              skipped, finished, prev_finished, prev_end, runs_left, faults_left>>

batchVars == <<fileVars, runVars, histVars>>

dlVars == <<d_pc, num_threads, queue, in_flight, futures, yielded, disk, success,
            failed, responses, reports>>

vars == <<retryVars, batchVars, dlVars>>

None == "None"

(***************************************************************************)
(* Text helpers.                                                           *)
(***************************************************************************)
Digits == <<"0", "1", "2", "3", "4", "5", "6", "7", "8", "9">>

IsDigit(c) == \E i \in 1..10 : Digits[i] = c

DigitVal(c) == (CHOOSE i \in 1..10 : Digits[i] = c) - 1

UpperCase == <<"A","B","C","D","E","F","G","H","I","J","K","L","M",
               "N","O","P","Q","R","S","T","U","V","W","X","Y","Z">>

LowerCase == <<"a","b","c","d","e","f","g","h","i","j","k","l","m",
               "n","o","p","q","r","s","t","u","v","w","x","y","z">>

\* str.lower()
Lower(s) ==
    [i \in 1..Len(s) |->
        IF \E j \in 1..26 : UpperCase[j] = s[i]
        THEN LowerCase[CHOOSE j \in 1..26 : UpperCase[j] = s[i]]
        ELSE s[i]]

\* s has sub at position i (1-based)
MatchAt(s, sub, i) ==
    /\ i >= 1
    /\ i + Len(sub) - 1 <= Len(s)
    /\ \A j \in 1..Len(sub) : s[i + j - 1] = sub[j]

\* the Python test: sub in s
Contains(s, sub) == \E i \in 1..(Len(s) + 1) : MatchAt(s, sub, i)

\* the length of the run of digits of s that starts at position i
RECURSIVE DigitRun(_, _)
DigitRun(s, i) ==
    IF i <= Len(s) /\ IsDigit(s[i]) THEN 1 + DigitRun(s, i + 1) ELSE 0

\* the value of a non-empty sequence of digits, base 10
RECURSIVE DigitsValue(_)
DigitsValue(ds) ==
    IF ds = <<>> THEN 0
    ELSE 10 * DigitsValue(SubSeq(ds, 1, Len(ds) - 1)) + DigitVal(ds[Len(ds)])

(***************************************************************************)
(* The Transcription Client as transcribe_with_retry sees it: a result is  *)
(* a success or an error that carries str(e).  ErrorTable lists the error  *)
(* texts the client may give, each with what it was built from: whether it *)
(* carries a rate-limit signature, whether it embeds a retry hint, and the *)
(* hint in milliseconds.  The code sees the text only.                     *)
(***************************************************************************)
T_429 == <<"4", "2", "9">>
T_EXHAUSTED == <<"R", "E", "S", "O", "U", "R", "C", "E", "_", "E", "X", "H", "A", "U", "S", "T", "E", "D">>
T_RETRY_IN == <<"r", "e", "t", "r", "y", " ", "i", "n", " ">>

ErrorTable ==
    { [text |-> <<"4", "2", "9", " ", "q", "u", "o", "t", "a">>, sig |-> TRUE, hasHint |-> FALSE, hint |-> 0],
      [text |-> <<"R", "E", "S", "O", "U", "R", "C", "E", "_", "E", "X", "H", "A", "U", "S", "T", "E", "D">>, sig |-> TRUE, hasHint |-> FALSE, hint |-> 0],
      [text |-> <<"4", "2", "9", " ", "P", "l", "e", "a", "s", "e", " ", "r", "e", "t", "r", "y", " ", "i", "n", " ", "7", "s", ".">>, sig |-> TRUE, hasHint |-> TRUE, hint |-> 7000],
      [text |-> <<"R", "E", "S", "O", "U", "R", "C", "E", "_", "E", "X", "H", "A", "U", "S", "T", "E", "D", " ", "R", "e", "t", "r", "y", " ", "i", "n", " ", "1", "2", ".", "5", "s">>, sig |-> TRUE, hasHint |-> TRUE, hint |-> 12500],
      [text |-> <<"4", "2", "9", " ", "r", "e", "t", "r", "y", " ", "i", "n", " ", "4", "0", ".", "s">>, sig |-> TRUE, hasHint |-> TRUE, hint |-> 40000],
      [text |-> <<"4", "2", "9", " ", "r", "e", "t", "r", "y", " ", "i", "n", " ", "s">>, sig |-> TRUE, hasHint |-> FALSE, hint |-> 0],
      [text |-> <<"5", "0", "0", " ", "i", "n", "t", "e", "r", "n", "a", "l">>, sig |-> FALSE, hasHint |-> FALSE, hint |-> 0],
      [text |-> <<"t", "i", "m", "e", "o", "u", "t", ",", " ", "r", "e", "t", "r", "y", " ", "i", "n", " ", "3", "s">>, sig |-> FALSE, hasHint |-> TRUE, hint |-> 3000] }

ErrorTexts == { e.text : e \in ErrorTable }

\* a result dict; result.get("error", "") is "" where the key is absent
SuccessResult == [status |-> "success", transcription |-> "text", error |-> <<>>]

\* the local variable result before its first assignment
Unbound == [status |-> "unbound", transcription |-> None, error |-> <<>>]

ErrorResult(msg) == [status |-> "error", transcription |-> None, error |-> msg]

\* what one call of transcribe_with_gemini may return
ClientResults == {SuccessResult} \union { ErrorResult(m) : m \in ErrorTexts }

(***************************************************************************)
(* transcribe_with_retry, analyze.py lines 29-58.  Times are milliseconds. *)
(***************************************************************************)
Seconds(x) == x * 1000

\* every error taken for a rate limit
IsRateLimitAnyError(error_msg) == TRUE

\* "429" in error_msg or "RESOURCE_EXHAUSTED" in error_msg
IsRateLimit(error_msg) ==
    Contains(error_msg, T_429) \/ Contains(error_msg, T_EXHAUSTED)

\* the end of a match of  retry in (\d+\.?\d*)s  that starts at i, or 0
HintEnd(low, i) ==
    LET j  == i + Len(T_RETRY_IN)
        d1 == DigitRun(low, j)
        k  == j + d1
        k2 == IF k <= Len(low) /\ low[k] = "." THEN k + 1 ELSE k
        k3 == k2 + DigitRun(low, k2)
    IN  IF /\ MatchAt(low, T_RETRY_IN, i)
           /\ d1 >= 1
           /\ k3 <= Len(low)
           /\ low[k3] = "s"
        THEN k3
        ELSE 0

\* re.search(r'retry in (\d+\.?\d*)s', error_msg.lower()) finds a match
HasRetryMatch(error_msg) ==
    \E i \in 1..Len(error_msg) : HintEnd(Lower(error_msg), i) > 0

\* float(retry_match.group(1)), of the leftmost match, in milliseconds
RetryMatchValue(error_msg) ==
    LET low == Lower(error_msg)
        i   == CHOOSE x \in 1..Len(low) :
                   /\ HintEnd(low, x) > 0
                   /\ \A y \in 1..(x - 1) : HintEnd(low, y) = 0
        j   == i + Len(T_RETRY_IN)
        d1  == DigitRun(low, j)
        k   == j + d1
        k2  == IF low[k] = "." THEN k + 1 ELSE k
        frac == SubSeq(low, k2, HintEnd(low, i) - 1) \o <<"0", "0", "0">>
    IN  Seconds(DigitsValue(SubSeq(low, j, k - 1)))
            + DigitsValue(SubSeq(frac, 1, 3))

BackoffStep == 15

HintBuffer == 1

\* a backoff that counts from the loop variable as it is (0-based), without
\* the + 1
WaitTimeZeroBased(error_msg, att) ==
    IF HasRetryMatch(error_msg)
    THEN RetryMatchValue(error_msg) + Seconds(HintBuffer)
    ELSE Seconds(BackoffStep * att)

\* lines 46-50: the time to sleep after iteration number attempt failed
WaitTime(error_msg, att) ==
    IF HasRetryMatch(error_msg)
    THEN RetryMatchValue(error_msg) + Seconds(HintBuffer)
    ELSE Seconds(BackoffStep * (att + 1))

\* a call of transcribe_with_retry(..., max_retries = m) begins
RetryCall(m) ==
    /\ r_pc = "idle"
    /\ r_pc' = "loop"
    /\ max_retries' = m
    /\ attempt' = 0
    /\ result' = Unbound
    /\ returned' = Unbound
    /\ calls' = 0
    /\ resps' = <<>>
    /\ waits' = <<>>
    /\ UNCHANGED <<batchVars, dlVars>>

\* a loop bound off by one: range(max_retries + 1)
LoopContinuesOneMore == attempt <= max_retries

\* for attempt in range(max_retries): there is a further iteration
LoopContinues == attempt < max_retries

\* one iteration of the for loop, lines 32-56, the client's answer being res
RetryIteration(res) ==
    /\ r_pc = "loop"
    /\ LoopContinues
    /\ result' = res
    /\ calls' = calls + 1
    /\ resps' = Append(resps, res)
    /\ IF res.status = "success"
       THEN /\ r_pc' = "returned"
            /\ returned' = res
            /\ UNCHANGED <<attempt, waits>>
       ELSE IF IsRateLimit(res.error)
       THEN /\ waits' = Append(waits, [attempt |-> attempt,
                                       error |-> res.error,
                                       wait_time |-> WaitTime(res.error, attempt)])
            /\ attempt' = attempt + 1
            /\ UNCHANGED <<r_pc, returned>>
       ELSE /\ r_pc' = "returned"
            /\ returned' = res
            /\ UNCHANGED <<attempt, waits>>
    /\ UNCHANGED max_retries
    /\ UNCHANGED <<batchVars, dlVars>>

\* line 58: the loop is over, return result (unbound when the loop never ran)
RetryFallthrough ==
    /\ r_pc = "loop"
    /\ ~LoopContinues
    /\ IF result = Unbound
       THEN r_pc' = "raised" /\ UNCHANGED returned
       ELSE r_pc' = "returned" /\ returned' = result
    /\ UNCHANGED <<max_retries, attempt, result, calls, resps, waits>>
    /\ UNCHANGED <<batchVars, dlVars>>

(***************************************************************************)
(* The file system the transcribe command runs on.  A path is a record     *)
(* [abs, parts]; FSList lists what exists, by absolute path, in sorted     *)
(* order.  INPUT_DIR holds two PDFs and a text file; the working directory *)
(* holds an empty directory.                                               *)
(***************************************************************************)
INPUT_DIR == [abs |-> TRUE, parts |-> <<"archives">>]

Cwd == <<"work">>

FSList ==
    << [path |-> <<"archives">>, kind |-> "dir", suffix |-> ""],
       [path |-> <<"archives", "a.pdf">>, kind |-> "file", suffix |-> ".pdf"],
       [path |-> <<"archives", "b.pdf">>, kind |-> "file", suffix |-> ".pdf"],
       [path |-> <<"archives", "notes.txt">>, kind |-> "file", suffix |-> ".txt"],
       [path |-> <<"work">>, kind |-> "dir", suffix |-> ""],
       [path |-> <<"work", "empty">>, kind |-> "dir", suffix |-> ""] >>

FS == { FSList[i] : i \in 1..Len(FSList) }

\* the names a document of a run can have (pdf_path.name)
PdfNames == {"a.pdf", "b.pdf", "nope.pdf"}

\* the PDFs that exist
PdfOnDisk == {"a.pdf", "b.pdf"}

AbsParts(p) == IF p.abs THEN p.parts ELSE Cwd \o p.parts

\* dir / p
Join(dir, p) == IF p.abs THEN p ELSE [abs |-> TRUE, parts |-> dir.parts \o p.parts]

\* p.exists()
Exists(p) == \E f \in FS : f.path = AbsParts(p)

\* p.is_dir()
IsDir(p) == \E f \in FS : f.path = AbsParts(p) /\ f.kind = "dir"

\* p.is_file()
IsFile(p) == \E f \in FS : f.path = AbsParts(p) /\ f.kind = "file"

\* p.name
Name(p) == p.parts[Len(p.parts)]

\* sorted(p.glob("*.pdf"))
InDirPdf(f, dir) ==
    /\ f.kind = "file"
    /\ f.suffix = ".pdf"
    /\ Len(f.path) = Len(dir) + 1
    /\ SubSeq(f.path, 1, Len(dir)) = dir

SortedGlob(p) ==
    LET hits == SelectSeq(FSList, LAMBDA f : InDirPdf(f, AbsParts(p)))
    IN  [i \in 1..Len(hits) |->
            [abs |-> p.abs,
             parts |-> p.parts \o <<hits[i].path[Len(hits[i].path)]>>]]

(***************************************************************************)
(* config.py: the model registry.                                          *)
(***************************************************************************)
MODELS ==
    ("gemini-flash" :> [name |-> "gemini-2.0-flash", provider |-> "google"]) @@
    ("gemini-pro" :> [name |-> "gemini-1.5-pro", provider |-> "google"]) @@
    ("claude-opus" :> [name |-> "claude-opus-4-5-20251101", provider |-> "anthropic"]) @@
    ("claude-sonnet" :> [name |-> "claude-sonnet-4-20250514", provider |-> "anthropic"])

DEFAULT_MODEL == "gemini-flash"

(***************************************************************************)
(* transcribe.py lines 144-161: the documents the input path names.        *)
(* [exit |-> TRUE] is raise typer.Exit(1).                                 *)
(***************************************************************************)
\* lines 145-151
ResolveInput(input_path) ==
    IF input_path.abs
    THEN [exit |-> FALSE, path |-> input_path]
    ELSE IF Exists(Join(INPUT_DIR, input_path))
    THEN [exit |-> FALSE, path |-> Join(INPUT_DIR, input_path)]
    ELSE IF ~Exists(input_path)
    THEN [exit |-> TRUE, path |-> input_path]
    ELSE [exit |-> FALSE, path |-> input_path]

\* lines 154-161
ListPdfFiles(input_path) ==
    LET r == ResolveInput(input_path)
        files == IF IsDir(r.path) THEN SortedGlob(r.path) ELSE <<r.path>>
    IN  IF r.exit \/ files = <<>>
        THEN [exit |-> TRUE, pdf_files |-> <<>>]
        ELSE [exit |-> FALSE, pdf_files |-> files]

(***************************************************************************)
(* transcribe.py lines 163-172: the page range.  The --pages text is a     *)
(* sequence of characters, <<>> when the option is absent.                 *)
(***************************************************************************)
\* the position of the first "-" of s, or 0
FirstDash(s) ==
    IF \E i \in 1..Len(s) : s[i] = "-"
    THEN CHOOSE i \in 1..Len(s) : s[i] = "-" /\ \A j \in 1..(i - 1) : s[j] # "-"
    ELSE 0

\* s.split("-")
RECURSIVE SplitDash(_)
SplitDash(s) ==
    IF FirstDash(s) = 0 THEN <<s>>
    ELSE <<SubSeq(s, 1, FirstDash(s) - 1)>>
             \o SplitDash(SubSeq(s, FirstDash(s) + 1, Len(s)))

\* int(t) does not raise ValueError
IsInt(t) == t # <<>> /\ \A i \in 1..Len(t) : IsDigit(t[i])

\* [raised |-> TRUE] is the ValueError of int()
ParsePages(pages) ==
    IF pages = <<>>
    THEN [raised |-> FALSE, start_page |-> 1, end_page |-> <<>>]
    ELSE IF FirstDash(pages) # 0
    THEN LET parts == SplitDash(pages)
         IN  IF ~IsInt(parts[1]) \/ (parts[2] # <<>> /\ ~IsInt(parts[2]))
             THEN [raised |-> TRUE, start_page |-> 1, end_page |-> <<>>]
             ELSE [raised |-> FALSE,
                   start_page |-> DigitsValue(parts[1]),
                   end_page |-> IF parts[2] # <<>>
                                THEN <<DigitsValue(parts[2])>>
                                ELSE <<>>]
    ELSE IF ~IsInt(pages)
    THEN [raised |-> TRUE, start_page |-> 1, end_page |-> <<>>]
    ELSE [raised |-> FALSE,
          start_page |-> DigitsValue(pages),
          end_page |-> <<DigitsValue(pages)>>]

\* line 203: if end_page: (None and 0 are false)
EndPageGiven(e) == e # <<>> /\ e[1] # 0

\* lines 203-206: the page numbers kept, of a document of n pages
FilterPages(n, s, e) ==
    SelectSeq([i \in 1..n |-> i],
              LAMBDA page_num :
                  IF EndPageGiven(e)
                  THEN s <= page_num /\ page_num <= e[1]
                  ELSE page_num >= s)

(***************************************************************************)
(* The progress store, transcribe.py lines 56-66.  completed is a set of   *)
(* entries keyed by file; timestamp 0 is None.                             *)
(***************************************************************************)
EmptyProgress == [completed |-> {}, failed |-> <<>>, last_updated |-> 0]

NoFile == [exists |-> FALSE, content |-> EmptyProgress]

\* a load that never reads the file
LoadProgressIgnoresFile == EmptyProgress

\* load_progress()
LoadProgress == IF progress_file.exists THEN progress_file.content ELSE EmptyProgress

\* line 175
InitialProgress(resume) == IF resume THEN LoadProgress ELSE EmptyProgress

\* what save_progress(prog) leaves in the file
Saved(prog) ==
    [exists |-> TRUE, content |-> [prog EXCEPT !.last_updated = now]]

CompletedNames(prog) == { e.file : e \in prog.completed }

\* progress["completed"][pdf_name] = entry
PutCompleted(prog, entry) ==
    [prog EXCEPT !.completed =
        { e \in prog.completed : e.file # entry.file } \union {entry}]

FailedNames(prog) == { prog.failed[i].file : i \in 1..Len(prog.failed) }

\* a skip test that also skips the documents of the failed list
IsSkippedAlsoFailed(name) ==
    name \in (CompletedNames(progress) \union FailedNames(progress)) /\ args.resume

\* line 192
IsSkipped(pdf_name) == pdf_name \in CompletedNames(progress) /\ args.resume

(***************************************************************************)
(* The transcribe command, transcribe.py lines 110-268, one action per     *)
(* stretch of code between two calls that leave the process (rasterizer,   *)
(* client, file writes), so that the run can be killed between them.       *)
(***************************************************************************)
Running == {"loop", "page", "save_results", "update", "handler"}

Ended == {"done", "exited", "crashed", "killed"}

pdf_path == pdf_files[idx]

pdf_name == Name(pdf_files[idx])

ZeroCalls == [n \in PdfNames |-> 0]

NoResults ==
    [pdf_name |-> "", total_pages |-> 0, pages_processed |-> 0, model |-> "",
     timestamp |-> 0, pages |-> <<>>]

\* str(e) of the faults the environment raises
E_RASTER == "cannot open document"
E_CLIENT == "client construction failed"
E_RESULTS == "cannot write results"
E_PROGRESS == "cannot write progress"

\* str(e) of the ValueError of get_client (gemini.py 14) and of
\* transcribe_with_claude (claude.py 25)
KeyNotSet(provider) ==
    IF provider = "google" THEN "GEMINI_API_KEY not set in environment"
    ELSE "ANTHROPIC_API_KEY not set in environment"

\* lines 138-185: the command starts with arguments a; the run before it, if
\* any, is over
StartRun(a) ==
    /\ pc \in Ended \union {"idle"}
    /\ runs_left > 0
    /\ runs_left' = runs_left - 1
    /\ now' = now + 1
    /\ args' = a
    /\ prev_finished' = finished
    /\ prev_end' = pc
    /\ raster_calls' = ZeroCalls
    /\ client_calls' = ZeroCalls
    /\ progress_writes' = ZeroCalls
    /\ page_calls' = <<>>
    /\ skipped' = {}
    /\ finished' = {}
    /\ images' = <<>>
    /\ img' = 1
    /\ results' = NoResults
    /\ err' = ""
    /\ idx' = 1
    /\ total_success' = 0
    /\ total_failed' = 0
    /\ LET files == ListPdfFiles(a.input_path)
           range == ParsePages(a.pages)
       IN  IF a.model \notin DOMAIN MODELS \/ files.exit
           THEN \* raise typer.Exit(1)
                /\ pc' = "exited"
                /\ exit_code' = 1
                /\ pdf_files' = <<>>
                /\ start_page' = 1
                /\ end_page' = <<>>
                /\ progress' = EmptyProgress
                /\ loaded' = {}
           ELSE IF range.raised
           THEN \* the ValueError of int() leaves the command
                /\ pc' = "crashed"
                /\ exit_code' = 1
                /\ pdf_files' = files.pdf_files
                /\ start_page' = 1
                /\ end_page' = <<>>
                /\ progress' = EmptyProgress
                /\ loaded' = {}
           ELSE /\ pc' = "loop"
                /\ exit_code' = -1
                /\ pdf_files' = files.pdf_files
                /\ start_page' = range.start_page
                /\ end_page' = range.end_page
                /\ progress' = InitialProgress(a.resume)
                /\ loaded' = CompletedNames(InitialProgress(a.resume))
    /\ UNCHANGED <<npages, progress_file, outputs, faults_left>>
    /\ UNCHANGED <<retryVars, dlVars>>

\* lines 187-194: the document is already completed
LoopSkip ==
    /\ pc = "loop"
    /\ idx <= Len(pdf_files)
    /\ IsSkipped(pdf_name)
    /\ skipped' = skipped \union {pdf_name}
    /\ idx' = idx + 1
    /\ UNCHANGED <<pc, args, pdf_files, start_page, end_page, progress, images, img,
                   results, err, exit_code, total_success, total_failed>>
    /\ UNCHANGED <<loaded, raster_calls, client_calls, progress_writes, page_calls,
                   finished, prev_finished, prev_end, runs_left, faults_left>>
    /\ UNCHANGED fileVars
    /\ UNCHANGED <<retryVars, dlVars>>

\* lines 187-218: the document is not skipped; pdf_to_images, the page filter
\* and the fresh results dict.  fault: pdf_to_images raises
ProcessDocument(fault) ==
    /\ pc = "loop"
    /\ idx <= Len(pdf_files)
    /\ ~IsSkipped(pdf_name)
    /\ fault => faults_left > 0
    /\ faults_left' = IF fault THEN faults_left - 1 ELSE faults_left
    /\ raster_calls' = [raster_calls EXCEPT ![pdf_name] = @ + 1]
    /\ IF fault \/ ~IsFile(pdf_path)
       THEN /\ pc' = "handler"
            /\ err' = E_RASTER
            /\ UNCHANGED <<images, img, results, page_calls>>
       ELSE LET total_pages == npages[pdf_name]
                kept == FilterPages(total_pages, start_page, end_page)
            IN  /\ images' = kept
                /\ img' = 1
                /\ results' = [pdf_name |-> pdf_name,
                               total_pages |-> total_pages,
                               pages_processed |-> Len(kept),
                               model |-> args.model,
                               timestamp |-> now,
                               pages |-> <<>>]
                /\ page_calls' = <<>>
                /\ pc' = IF kept = <<>> THEN "save_results" ELSE "page"
                /\ err' = err
    /\ UNCHANGED <<args, pdf_files, idx, start_page, end_page, progress, exit_code,
                   total_success, total_failed>>
    /\ UNCHANGED <<loaded, client_calls, progress_writes, skipped, finished,
                   prev_finished, prev_end, runs_left>>
    /\ UNCHANGED fileVars
    /\ UNCHANGED <<retryVars, dlVars>>

\* transcribe_page going through transcribe_with_retry with its default of 3
\* attempts: a rate-limited answer is the third one
ClientCallsWithRetry(res) ==
    IF res.status = "error" /\ IsRateLimit(res.error) THEN 3 ELSE 1

\* lines 69-78 and 230: the Transcription Client calls transcribe_page makes
\* before it returns res: it calls the provider's function once, directly
ClientCallsFor(res) == 1

\* lines 229-240: one iteration of the loop over images: transcribe_page, the
\* client answering res.  fault: the call raises instead of returning
TranscribePage(res, fault) ==
    /\ pc = "page"
    /\ fault => faults_left > 0
    /\ faults_left' = IF fault THEN faults_left - 1 ELSE faults_left
    /\ LET provider == MODELS[args.model].provider
       IN  IF provider \notin args.keys
           THEN /\ pc' = "handler"
                /\ err' = KeyNotSet(provider)
                /\ client_calls' = [client_calls EXCEPT ![pdf_name] = @ + 1]
                /\ UNCHANGED <<img, results, total_success, total_failed, page_calls>>
           ELSE IF fault
           THEN /\ pc' = "handler"
                /\ err' = E_CLIENT
                /\ client_calls' = [client_calls EXCEPT ![pdf_name] = @ + 1]
                /\ UNCHANGED <<img, results, total_success, total_failed, page_calls>>
           ELSE /\ results' = [results EXCEPT !.pages =
                                  Append(@, [page_num |-> images[img], result |-> res])]
                /\ client_calls' =
                       [client_calls EXCEPT ![pdf_name] = @ + ClientCallsFor(res)]
                /\ page_calls' = Append(page_calls, ClientCallsFor(res))
                /\ total_success' = total_success + (IF res.status = "success" THEN 1 ELSE 0)
                /\ total_failed' = total_failed + (IF res.status = "success" THEN 0 ELSE 1)
                /\ img' = img + 1
                /\ pc' = IF img = Len(images) THEN "save_results" ELSE "page"
                /\ err' = err
    /\ UNCHANGED <<args, pdf_files, idx, start_page, end_page, progress, images, exit_code>>
    /\ UNCHANGED <<loaded, raster_calls, progress_writes, skipped, finished,
                   prev_finished, prev_end, runs_left>>
    /\ UNCHANGED fileVars
    /\ UNCHANGED <<retryVars, dlVars>>

\* lines 242-244: save_results.  fault: a write raises
SaveResults(fault) ==
    /\ pc = "save_results"
    /\ fault => faults_left > 0
    /\ faults_left' = IF fault THEN faults_left - 1 ELSE faults_left
    /\ IF fault
       THEN /\ pc' = "handler"
            /\ err' = E_RESULTS
            /\ UNCHANGED outputs
       ELSE /\ pc' = "update"
            /\ outputs' = { o \in outputs : o.pdf_name # pdf_name } \union {results}
            /\ err' = err
    /\ UNCHANGED <<args, pdf_files, idx, start_page, end_page, progress, images, img,
                   results, exit_code, total_success, total_failed>>
    /\ UNCHANGED <<loaded, raster_calls, client_calls, progress_writes, page_calls,
                   skipped, finished, prev_finished, prev_end, runs_left>>
    /\ UNCHANGED <<npages, progress_file, now>>
    /\ UNCHANGED <<retryVars, dlVars>>

\* lines 246-252: the completed entry and save_progress.  fault: write_text
\* raises before it writes
UpdateProgress(fault) ==
    /\ pc = "update"
    /\ fault => faults_left > 0
    /\ faults_left' = IF fault THEN faults_left - 1 ELSE faults_left
    /\ progress_writes' = [progress_writes EXCEPT ![pdf_name] = @ + 1]
    /\ progress' = [PutCompleted(progress, [file |-> pdf_name,
                                            timestamp |-> now,
                                            pages |-> Len(images),
                                            model |-> args.model])
                       EXCEPT !.last_updated = now]
    /\ IF fault
       THEN /\ pc' = "handler"
            /\ err' = E_PROGRESS
            /\ UNCHANGED <<progress_file, idx, finished>>
       ELSE /\ progress_file' = Saved(progress')
            /\ finished' = finished \union {pdf_name}
            /\ idx' = idx + 1
            /\ pc' = "loop"
            /\ err' = err
    /\ UNCHANGED <<args, pdf_files, start_page, end_page, images, img, results,
                   exit_code, total_success, total_failed>>
    /\ UNCHANGED <<loaded, raster_calls, client_calls, page_calls, skipped,
                   prev_finished, prev_end, runs_left>>
    /\ UNCHANGED <<npages, outputs, now>>
    /\ UNCHANGED <<retryVars, dlVars>>

\* lines 254-261: the except clause.  fault: its save_progress raises, and the
\* exception leaves the command
HandleFault(fault) ==
    /\ pc = "handler"
    /\ fault => faults_left > 0
    /\ faults_left' = IF fault THEN faults_left - 1 ELSE faults_left
    /\ progress_writes' = [progress_writes EXCEPT ![pdf_name] = @ + 1]
    /\ progress' = [progress EXCEPT
                       !.failed = Append(@, [file |-> pdf_name,
                                             error |-> err,
                                             timestamp |-> now]),
                       !.last_updated = now]
    /\ IF fault
       THEN /\ pc' = "crashed"
            /\ exit_code' = 1
            /\ UNCHANGED <<progress_file, idx, finished>>
       ELSE /\ progress_file' = Saved(progress')
            /\ finished' = finished \union ({pdf_name} \intersect CompletedNames(progress))
            /\ idx' = idx + 1
            /\ pc' = "loop"
            /\ exit_code' = exit_code
    /\ UNCHANGED <<args, pdf_files, start_page, end_page, images, img, results, err,
                   total_success, total_failed>>
    /\ UNCHANGED <<loaded, raster_calls, client_calls, page_calls, skipped,
                   prev_finished, prev_end, runs_left>>
    /\ UNCHANGED <<npages, outputs, now>>
    /\ UNCHANGED <<retryVars, dlVars>>

\* lines 263-268: the loop is over, the summary is printed
Finish ==
    /\ pc = "loop"
    /\ idx > Len(pdf_files)
    /\ pc' = "done"
    /\ exit_code' = 0
    /\ UNCHANGED <<args, pdf_files, idx, start_page, end_page, progress, images, img,
                   results, err, total_success, total_failed>>
    /\ UNCHANGED histVars
    /\ UNCHANGED fileVars
    /\ UNCHANGED <<retryVars, dlVars>>

\* the process is killed between two operations: what it held in memory is
\* gone, the files stay as they are
Kill ==
    /\ pc \in Running
    /\ pc' = "killed"
    /\ exit_code' = 137
    /\ progress' = EmptyProgress
    /\ images' = <<>>
    /\ img' = 1
    /\ results' = NoResults
    /\ err' = ""
    /\ total_success' = 0
    /\ total_failed' = 0
    /\ UNCHANGED <<args, pdf_files, idx, start_page, end_page>>
    /\ UNCHANGED histVars
    /\ UNCHANGED fileVars
    /\ UNCHANGED <<retryVars, dlVars>>

(***************************************************************************)
(* Inputs and specifications.                                              *)
(***************************************************************************)
MaxRetries == 3

MaxRuns == 2

MaxFaults == 2

MaxPages == 10

MaxPageArg == 11

NumFiles == 6

MaxFailedDownloads == 2

P_DIR == [abs |-> TRUE, parts |-> <<"archives">>]
P_FILE_REL == [abs |-> FALSE, parts |-> <<"a.pdf">>]
P_FILE_ABS == [abs |-> TRUE, parts |-> <<"archives", "b.pdf">>]
P_EMPTY_DIR == [abs |-> FALSE, parts |-> <<"empty">>]
P_MISSING_REL == [abs |-> FALSE, parts |-> <<"nope.pdf">>]
P_MISSING_ABS == [abs |-> TRUE, parts |-> <<"archives", "nope.pdf">>]

Providers == {"google", "anthropic"}

\* str(n)
RECURSIVE Decimal(_)
Decimal(n) ==
    IF n < 10 THEN <<Digits[n + 1]>>
    ELSE Decimal(n \div 10) \o <<Digits[(n % 10) + 1]>>

\* the --pages texts "N", "N-M" and "N-", and the absent option
PageTexts ==
    {<<>>}
    \union { Decimal(n) : n \in 0..MaxPageArg }
    \union { Decimal(n) \o <<"-">> : n \in 0..MaxPageArg }
    \union { Decimal(n) \o <<"-">> \o Decimal(m) : n \in 0..MaxPageArg, m \in 0..MaxPageArg }

\* --pages texts int() rejects
BadPageTexts == { <<"-", "3">>, <<"x">> }

\* what the Transcription Client answers in a batch run
BatchResults ==
    { SuccessResult, ErrorResult(<<"4", "2", "9", " ", "q", "u", "o", "t", "a">>), ErrorResult(<<"5", "0", "0", " ", "i", "n", "t", "e", "r", "n", "a", "l">>) }

\* the page counts of the PDFs on disk
DiskPages == ("a.pdf" :> 2) @@ ("b.pdf" :> 1)

NoArgs ==
    [model |-> DEFAULT_MODEL, input_path |-> P_DIR, pages |-> <<>>,
     resume |-> TRUE, keys |-> Providers]

BatchInit(pagecount, runs, faults) ==
    /\ npages = pagecount
    /\ progress_file = NoFile
    /\ outputs = {}
    /\ now = 0
    /\ pc = "idle"
    /\ args = NoArgs
    /\ pdf_files = <<>>
    /\ idx = 1
    /\ start_page = 1
    /\ end_page = <<>>
    /\ progress = EmptyProgress
    /\ images = <<>>
    /\ img = 1
    /\ results = NoResults
    /\ err = ""
    /\ exit_code = -1
    /\ total_success = 0
    /\ total_failed = 0
    /\ loaded = {}
    /\ raster_calls = ZeroCalls
    /\ client_calls = ZeroCalls
    /\ progress_writes = ZeroCalls
    /\ page_calls = <<>>
    /\ skipped = {}
    /\ finished = {}
    /\ prev_finished = {}
    /\ prev_end = "idle"
    /\ runs_left = runs
    /\ faults_left = faults

RetryInit ==
    /\ r_pc = "idle"
    /\ max_retries = 0
    /\ attempt = 0
    /\ result = Unbound
    /\ returned = Unbound
    /\ calls = 0
    /\ resps = <<>>
    /\ waits = <<>>

(***************************************************************************)
(* download_grothendieck.py: main, download_pdf and the executor.  The     *)
(* executor (ThreadPoolExecutor) keeps a FIFO work queue and starts at     *)
(* most max_workers threads, each running one work item at a time;         *)
(* as_completed hands each finished future to the main thread once.        *)
(***************************************************************************)
max_workers == 5

\* the head of the list PDF_FILES, lines 12-36
ListedNames ==
    <<"1.pdf", "2.pdf", "4.pdf", "5.pdf", "6.pdf", "7.pdf", "8.pdf", "9.pdf">>

PDF_FILES == SubSeq(ListedNames, 1, NumFiles)

FileIndices == 1..Len(PDF_FILES)

\* what requests.get (and the write that follows it) may do for one file:
\* answer 200 with a body, answer another status, or raise
ServerResponses ==
    { [kind |-> "answered", status_code |-> 200, bytes |-> 1000, text |-> ""],
      [kind |-> "answered", status_code |-> 404, bytes |-> 0, text |-> ""],
      [kind |-> "raised", status_code |-> 0, bytes |-> 0, text |-> "timed out"] }

NoResponse == [kind |-> "none", status_code |-> 0, bytes |-> 0, text |-> ""]

\* the third element of the tuple: a length, a status code or str(e)
NoInfo == [bytes |-> 0, status_code |-> 0, text |-> ""]

\* a future that is not done
Pending == [done |-> FALSE, filename |-> "", ok |-> FALSE, info |-> NoInfo]

\* lines 38-49: the tuple download_pdf(filename) returns, as the result of a
\* future that is done
download_pdf(filename, resp) ==
    IF resp.kind = "raised"
    THEN [done |-> TRUE, filename |-> filename, ok |-> FALSE,
          info |-> [NoInfo EXCEPT !.text = resp.text]]
    ELSE IF resp.status_code = 200
    THEN [done |-> TRUE, filename |-> filename, ok |-> TRUE,
          info |-> [NoInfo EXCEPT !.bytes = resp.bytes]]
    ELSE [done |-> TRUE, filename |-> filename, ok |-> FALSE,
          info |-> [NoInfo EXCEPT !.status_code = resp.status_code]]

\* the number of executor.submit calls made so far
Submitted ==
    Len(queue) + Cardinality(in_flight)
        + Cardinality({ i \in FileIndices : futures[i].done })

\* line 57: one executor.submit(download_pdf, f) of the dict comprehension;
\* the executor may start a thread while it has fewer than max_workers, and
\* starts one when none is free
Submit(spawn) ==
    /\ d_pc = "submit"
    /\ Submitted < Len(PDF_FILES)
    /\ queue' = Append(queue, Submitted + 1)
    /\ spawn => num_threads < max_workers
    /\ ~spawn => (num_threads = max_workers \/ num_threads > Cardinality(in_flight))
    /\ num_threads' = IF spawn THEN num_threads + 1 ELSE num_threads
    /\ d_pc' = IF Submitted + 1 = Len(PDF_FILES) THEN "collect" ELSE "submit"
    /\ UNCHANGED <<in_flight, futures, yielded, disk, success, failed, responses,
                   reports>>
    /\ UNCHANGED <<retryVars, batchVars>>

\* a pool that runs a work item whether or not a thread is free
PoolHasRoomAlways == TRUE

\* a started thread is not running a work item
PoolHasRoom == Cardinality(in_flight) < num_threads

\* a free worker thread takes the oldest work item and calls download_pdf
WorkerTake ==
    /\ queue # <<>>
    /\ PoolHasRoom
    /\ in_flight' = in_flight \union {Head(queue)}
    /\ queue' = Tail(queue)
    /\ UNCHANGED <<d_pc, num_threads, futures, yielded, disk, success, failed,
                   responses, reports>>
    /\ UNCHANGED <<retryVars, batchVars>>

\* the request got no 200 answer
IsFailure(resp) == resp.kind = "raised" \/ resp.status_code # 200

\* lines 41-49 in a worker thread: the request of file i ends with resp, the
\* body is written on a 200, and the tuple becomes the future's result.  The
\* server fails at most MaxFailedDownloads requests of a run
WorkerFinish(i, resp) ==
    /\ i \in in_flight
    /\ IsFailure(resp) =>
          Cardinality({ j \in FileIndices : responses[j] # NoResponse
                                              /\ IsFailure(responses[j]) })
              < MaxFailedDownloads
    /\ in_flight' = in_flight \ {i}
    /\ responses' = [responses EXCEPT ![i] = resp]
    /\ futures' = [futures EXCEPT ![i] = download_pdf(PDF_FILES[i], resp)]
    /\ disk' = IF IsFailure(resp) THEN disk ELSE disk \union {PDF_FILES[i]}
    /\ UNCHANGED <<d_pc, num_threads, queue, yielded, success, failed, reports>>
    /\ UNCHANGED <<retryVars, batchVars>>

\* lines 58-65 in the main thread: as_completed yields the finished future i
MainCollect(i) ==
    /\ d_pc = "collect"
    /\ futures[i].done
    /\ i \notin yielded
    /\ yielded' = yielded \union {i}
    /\ success' = IF futures[i].ok THEN success + 1 ELSE success
    /\ failed' = IF futures[i].ok THEN failed ELSE failed + 1
    /\ reports' = [reports EXCEPT ![futures[i].filename] =
                      Append(@, [ok |-> futures[i].ok, info |-> futures[i].info])]
    /\ UNCHANGED <<d_pc, num_threads, queue, in_flight, futures, disk, responses>>
    /\ UNCHANGED <<retryVars, batchVars>>

\* lines 66-67: as_completed is exhausted, the with block shuts the executor
\* down and main prints the totals
MainFinish ==
    /\ d_pc = "collect"
    /\ yielded = FileIndices
    /\ d_pc' = "done"
    /\ UNCHANGED <<num_threads, queue, in_flight, futures, yielded, disk, success,
                   failed, responses, reports>>
    /\ UNCHANGED <<retryVars, batchVars>>

DownloadInit(start) ==
    /\ d_pc = start
    /\ num_threads = 0
    /\ queue = <<>>
    /\ in_flight = {}
    /\ futures = [i \in FileIndices |-> Pending]
    /\ yielded = {}
    /\ disk = {}
    /\ success = 0
    /\ failed = 0
    /\ responses = [i \in FileIndices |-> NoResponse]
    /\ reports = [n \in { PDF_FILES[i] : i \in FileIndices } |-> <<>>]

(* Repeated runs on one progress file, with kills and faults. *)
RunArgs ==
    [model : {"gemini-flash"}, input_path : {P_DIR, P_FILE_REL}, pages : {<<>>},
     resume : BOOLEAN, keys : {Providers}]

Init == RetryInit /\ BatchInit(DiskPages, MaxRuns, MaxFaults) /\ DownloadInit("idle")

Next ==
    \/ \E a \in RunArgs : StartRun(a)
    \/ LoopSkip
    \/ \E fault \in BOOLEAN : ProcessDocument(fault)
    \/ \E res \in BatchResults, fault \in BOOLEAN : TranscribePage(res, fault)
    \/ \E fault \in BOOLEAN : SaveResults(fault)
    \/ \E fault \in BOOLEAN : UpdateProgress(fault)
    \/ \E fault \in BOOLEAN : HandleFault(fault)
    \/ Finish
    \/ Kill

Spec == Init /\ [][Next]_vars

(* One run, over every kind of model key, input path and environment. *)
StartArgs ==
    [model : {"gemini-flash", "claude-sonnet", "gpt-4"},
     input_path : {P_DIR, P_FILE_REL, P_FILE_ABS, P_EMPTY_DIR, P_MISSING_REL, P_MISSING_ABS},
     pages : {<<>>} \union BadPageTexts,
     resume : BOOLEAN,
     keys : SUBSET Providers]

InitStart == RetryInit /\ BatchInit(DiskPages, 1, 0) /\ DownloadInit("idle")

NextStart ==
    \/ \E a \in StartArgs : StartRun(a)
    \/ ProcessDocument(FALSE)
    \/ \E res \in BatchResults : TranscribePage(res, FALSE)
    \/ SaveResults(FALSE)
    \/ UpdateProgress(FALSE)
    \/ HandleFault(FALSE)
    \/ Finish
    \/ Kill

SpecStart == InitStart /\ [][NextStart]_vars

(* One run on one document, over the page counts and the --pages texts. *)
PageArgs ==
    [model : {DEFAULT_MODEL}, input_path : {P_FILE_REL}, pages : PageTexts,
     resume : {TRUE}, keys : {Providers}]

InitPages ==
    /\ RetryInit
    /\ \E n \in 0..MaxPages : BatchInit(("a.pdf" :> n) @@ ("b.pdf" :> 1), 1, 0)
    /\ DownloadInit("idle")

NextPages ==
    \/ \E a \in PageArgs : StartRun(a)
    \/ ProcessDocument(FALSE)
    \/ TranscribePage(SuccessResult, FALSE)
    \/ SaveResults(FALSE)
    \/ UpdateProgress(FALSE)
    \/ Finish

SpecPages == InitPages /\ [][NextPages]_vars

(* Calls of transcribe_with_retry, over what the client answers. *)
InitRetry == RetryInit /\ BatchInit(DiskPages, 0, 0) /\ DownloadInit("idle")

NextRetry ==
    \/ \E m \in 0..MaxRetries : RetryCall(m)
    \/ \E res \in ClientResults : RetryIteration(res)
    \/ RetryFallthrough

SpecRetry == InitRetry /\ [][NextRetry]_vars

(* One run of the downloader, over the interleavings of its threads. *)
InitDownload == RetryInit /\ BatchInit(DiskPages, 0, 0) /\ DownloadInit("submit")

NextDownload ==
    \/ \E spawn \in BOOLEAN : Submit(spawn)
    \/ WorkerTake
    \/ \E i \in FileIndices, resp \in ServerResponses : WorkerFinish(i, resp)
    \/ \E i \in FileIndices : MainCollect(i)
    \/ MainFinish

SpecDownload == InitDownload /\ [][NextDownload]_vars

(***************************************************************************)
(* Properties of transcribe_with_retry, checked under SpecRetry.           *)
(***************************************************************************)
\* what an error text was built from
TableEntry(text) == CHOOSE e \in ErrorTable : e.text = text

\* res is an error that carries a rate-limit signature
RateLimited(res) == res.status = "error" /\ TableEntry(res.error).sig

AllRateLimited == \A j \in 1..Len(resps) : RateLimited(resps[j])

\* C5: with max_retries = N >= 1 and a client that answers every call with a
\* rate-limited error, the call makes exactly N client calls and returns the
\* error result of the N-th call, not an error of its own.
C5_ExhaustionReturnsLastError ==
    (max_retries >= 1 /\ AllRateLimited) =>
        /\ calls <= max_retries
        /\ r_pc # "raised"
        /\ r_pc = "returned" =>
              /\ calls = max_retries
              /\ Len(resps) = max_retries
              /\ returned = resps[max_retries]
              /\ returned.status = "error"

C5_Witness ==
    /\ r_pc = "returned"
    /\ max_retries = 3
    /\ calls = 3
    /\ AllRateLimited
    /\ returned = resps[3]

\* C6: a client error without a rate-limit signature is returned at once: it
\* is the last result the client gave, the call has returned it, no sleep
\* followed it (the sleeps are those of the rate-limited attempts before it),
\* and on the first attempt the call made one client call in all.
C6_OtherErrorReturnsAtOnce ==
    \A j \in 1..Len(resps) :
        (resps[j].status = "error" /\ ~TableEntry(resps[j].error).sig) =>
            /\ j = Len(resps)
            /\ calls = j
            /\ r_pc = "returned"
            /\ returned = resps[j]
            /\ Len(waits) = j - 1
            /\ \A i \in 1..(j - 1) : RateLimited(resps[i])

C6_Witness ==
    /\ r_pc = "returned"
    /\ calls = 1
    /\ waits = <<>>
    /\ returned.status = "error"
    /\ ~TableEntry(returned.error).sig
    /\ TableEntry(returned.error).hasHint

\* C7: the i-th sleep follows the i-th attempt, which failed with a rate-limit
\* signature; it lasts X + 1 seconds when the error text carries the hint
\* "retry in X s" and 15 * i seconds otherwise, whatever the earlier sleeps were.
C7_WaitIsHintPlusOneOrLinear ==
    /\ Len(waits) <= Len(resps)
    /\ \A i \in 1..Len(waits) :
          /\ waits[i].error = resps[i].error
          /\ RateLimited(resps[i])
          /\ waits[i].wait_time =
                IF TableEntry(waits[i].error).hasHint
                THEN TableEntry(waits[i].error).hint + 1000
                ELSE 15 * i * 1000

C7_Witness ==
    /\ Len(waits) = 2
    /\ TableEntry(waits[1].error).hasHint
    /\ waits[1].wait_time = 13500
    /\ ~TableEntry(waits[2].error).hasHint
    /\ waits[2].wait_time = 30000

\* C11: for every max_retries >= 0 and whatever the client answers, the call
\* makes at most max_retries client calls and ends by returning a result dict
\* whose status is success or error (the last one the client gave): it never
\* ends by raising.
C11_ReturnsResultWithinMaxCalls ==
    /\ calls <= max_retries
    /\ r_pc # "raised"
    /\ r_pc = "returned" =>
          /\ returned.status \in {"success", "error"}
          /\ Len(resps) >= 1
          /\ returned = resps[Len(resps)]

\* C15: every sleep is followed by a further client call, so a call that has
\* returned made fewer sleeps than client calls, and with N attempts that were
\* all rate-limited it made N - 1 sleeps.
C15_NoWaitAfterLastAttempt ==
    /\ Len(waits) <= calls
    /\ r_pc = "returned" =>
          /\ Len(waits) < calls
          /\ (AllRateLimited /\ calls = max_retries) => Len(waits) = max_retries - 1

(***************************************************************************)
(* Properties of the transcribe command.                                   *)
(***************************************************************************)
\* the loop over pdf_files is past the document named n
Passed(n) == \E i \in 1..Len(pdf_files) : i < idx /\ Name(pdf_files[i]) = n

\* n was in the failed list of the progress file before this run began
FailedBefore(n) ==
    \E i \in 1..Len(progress_file.content.failed) :
        /\ progress_file.content.failed[i].file = n
        /\ progress_file.content.failed[i].timestamp < now

\* C1: a document the loop is past was skipped if and only if its name was in
\* the completed set as loaded and resume is on; a skipped document has no
\* rasterizer call, no client call and no progress write; every other one was
\* rasterized once and had the progress file written for it.  A document that
\* is only in the failed list is therefore processed again.
C1_SkippedIffCompletedAndResume ==
    /\ \A n \in skipped :
          /\ Passed(n)
          /\ raster_calls[n] = 0
          /\ client_calls[n] = 0
          /\ progress_writes[n] = 0
    /\ \A n \in PdfNames :
          Passed(n) =>
              /\ (n \in skipped) <=> (n \in loaded /\ args.resume)
              /\ n \notin skipped => (raster_calls[n] = 1 /\ progress_writes[n] >= 1)

C1_Witness ==
    /\ pc = "done"
    /\ args.resume
    /\ \E n \in skipped, m \in PdfNames :
          /\ FailedBefore(m)
          /\ m \notin loaded
          /\ Passed(m)
          /\ m \notin skipped
          /\ raster_calls[m] = 1

\* C2: in a run with resume on that follows a killed run, no document whose
\* completed entry the killed run had saved is rasterized or transcribed, and
\* the loop skips each of them; the documents processed are the others.
C2_FinishedBeforeKillSkippedOnResume ==
    (prev_end = "killed" /\ args.resume) =>
        \A n \in prev_finished :
            /\ raster_calls[n] = 0
            /\ client_calls[n] = 0
            /\ Passed(n) => n \in skipped

C2_Witness ==
    /\ prev_end = "killed"
    /\ args.resume
    /\ pc = "done"
    /\ \E n \in prev_finished, m \in PdfNames \ prev_finished :
          /\ n \in skipped
          /\ raster_calls[m] = 1
          /\ m \in finished

\* C3: whatever fault sent the run to the except clause for document D, the
\* clause records D in the failed list with the error text and a timestamp,
\* saves the progress file, and the loop goes on with the next document
\* (unless the process is killed).
C3_FaultRecordedAndBatchGoesOn ==
    [][pc = "handler" =>
          \/ pc' = "killed"
          \/ /\ pc' = "loop"
             /\ idx' = idx + 1
             /\ err # ""
             /\ progress_file'.exists
             /\ Len(progress_file'.content.failed) > 0
             /\ progress_file'.content.failed[Len(progress_file'.content.failed)]
                    = [file |-> pdf_name, error |-> err, timestamp |-> now]]_vars

ProcessedPages == [i \in 1..Len(results.pages) |-> results.pages[i].page_num]

\* the pages p of 1..n with lo <= p <= hi, in increasing order
PagesBetween(n, lo, hi) ==
    SelectSeq([i \in 1..n |-> i], LAMBDA p : lo <= p /\ p <= hi)

\* the Batch Record holds exactly the pages of expected
RecordMatches(expected) ==
    /\ ProcessedPages = expected
    /\ results.pages_processed = Len(expected)
    /\ results.total_pages = npages["a.pdf"]

\* C8: once the pages of the document are transcribed, for the --pages text
\* "N" the Batch Record holds page N alone, for "N-M" the pages N..M and for
\* "N-" the pages from N on, each once and in increasing order, with
\* pages_processed their number and total_pages the document's page count.
C8_PageRangeSelectsExactly ==
    pc \in {"update", "done"} =>
        \A N \in 0..MaxPageArg, M \in 0..MaxPageArg :
            /\ args.pages = Decimal(N) =>
                  RecordMatches(PagesBetween(npages["a.pdf"], N, N))
            /\ args.pages = Decimal(N) \o <<"-">> \o Decimal(M) =>
                  RecordMatches(PagesBetween(npages["a.pdf"], N, M))
            /\ args.pages = Decimal(N) \o <<"-">> =>
                  RecordMatches(PagesBetween(npages["a.pdf"], N, npages["a.pdf"]))

\* the API key of the selected model's provider is not set
KeyMissing ==
    /\ args.model \in DOMAIN MODELS
    /\ MODELS[args.model].provider \notin args.keys

\* C9: in a run without the key of the selected provider no document is
\* rasterized, nothing is recorded as completed or failed, in memory or in the
\* progress file, and the loop never moves on to a next document.
C9_MissingKeyFatalBeforeProcessing ==
    (pc # "idle" /\ KeyMissing) =>
        /\ \A n \in PdfNames : raster_calls[n] = 0
        /\ progress.completed = {}
        /\ progress.failed = <<>>
        /\ progress_file = NoFile
        /\ idx = 1

\* the model key is not registered, or the input path names no document
BadInput ==
    \/ args.model \notin DOMAIN MODELS
    \/ args.input_path \in {P_EMPTY_DIR, P_MISSING_REL, P_MISSING_ABS}

\* C10: a run with an unknown model key or an input path that matches no
\* document exits with a non-zero code and has made no rasterizer call, no
\* client call and no write of the progress file.
C10_BadInputAbortsBeforeWork ==
    (pc # "idle" /\ BadInput) =>
        /\ pc = "exited"
        /\ exit_code # 0
        /\ \A n \in PdfNames :
              /\ raster_calls[n] = 0
              /\ client_calls[n] = 0
              /\ progress_writes[n] = 0
        /\ progress_file = NoFile

\* s is an initial stretch of t
IsPrefix(s, t) == Len(s) <= Len(t) /\ SubSeq(t, 1, Len(s)) = s

\* C13: whatever the resume flag of each run, no step of any run removes a
\* name from the completed set of the progress file or an entry from its
\* failed list: every save leaves in the file all that was in it before.
C13_ProgressFileNeverLosesEntry ==
    [][/\ CompletedNames(progress_file.content)
              \subseteq CompletedNames(progress_file'.content)
       /\ IsPrefix(progress_file.content.failed,
                   progress_file'.content.failed)]_vars

\* the progress file holds a completed entry of n written by the current run
CompletedNow(n) ==
    \E e \in progress_file.content.completed : e.file = n /\ e.timestamp = now

\* the progress file holds a failure record of n written by the current run
FailedNow(n) ==
    \E i \in 1..Len(progress_file.content.failed) :
        /\ progress_file.content.failed[i].file = n
        /\ progress_file.content.failed[i].timestamp = now

\* the Batch Record the current run wrote for n
RecordsNow(n) == { o \in outputs : o.pdf_name = n /\ o.timestamp = now }

\* C14: a document the loop is past and did not skip is in the completed set
\* exactly when its processing raised no exception, that is when the run wrote
\* no failure record for it; its completed entry carries the number of pages of
\* the filtered range, whatever the statuses of the page results; and a
\* document that is in the completed set a resume run loads is skipped.
C14_CompletedIffNoException ==
    \A n \in PdfNames :
        /\ (Passed(n) /\ n \notin skipped) => (CompletedNow(n) <=> ~FailedNow(n))
        /\ CompletedNow(n) =>
              /\ ~FailedNow(n)
              /\ \E o \in RecordsNow(n) :
                    /\ Len(o.pages) = o.pages_processed
                    /\ \E e \in progress_file.content.completed :
                          e.file = n /\ e.pages = o.pages_processed
        /\ (args.resume /\ n \in loaded /\ Passed(n)) =>
              (n \in skipped /\ raster_calls[n] = 0 /\ client_calls[n] = 0)

(***************************************************************************)
(* Properties of the downloader, checked under SpecDownload.               *)
(***************************************************************************)
\* the server answered the request of file i with a 200
Got200(i) == responses[i].kind = "answered" /\ responses[i].status_code = 200

\* the lines main printed for file i
ReportsOf(i) == reports[PDF_FILES[i]]

\* in every state: the pool is bounded, each result comes from the file's own
\* request, each finished file is reported at most once, the counters count
\* the reports, and a run that is not over can take a step
DownloadState ==
    /\ Cardinality(in_flight) <= 5
    /\ \A i \in FileIndices :
          /\ futures[i].done =>
                /\ futures[i].filename = PDF_FILES[i]
                /\ futures[i].ok <=> Got200(i)
          /\ Len(ReportsOf(i)) = (IF i \in yielded THEN 1 ELSE 0)
          /\ i \in yielded => (ReportsOf(i)[1].ok <=> Got200(i))
          /\ PDF_FILES[i] \in disk <=> (futures[i].done /\ Got200(i))
    /\ success = Cardinality({ i \in yielded : Got200(i) })
    /\ failed = Cardinality({ i \in yielded : ~Got200(i) })
    /\ d_pc # "done" => ENABLED NextDownload
    /\ d_pc = "done" =>
          /\ \A i \in FileIndices : Len(ReportsOf(i)) = 1
          /\ success + failed = Len(PDF_FILES)
          /\ in_flight = {}
          /\ queue = <<>>

\* in every step: the counters change only when the main thread takes one
\* finished future from as_completed, and then by one in all
CountersStep ==
    (success' # success \/ failed' # failed) =>
        /\ d_pc = "collect"
        /\ \E i \in FileIndices \ yielded : yielded' = yielded \union {i}
        /\ success' + failed' = success + failed + 1
        /\ UNCHANGED <<queue, in_flight, futures, disk>>

\* C12: under every interleaving of the worker threads at most 5 downloads are
\* in flight; a download that fails (bad status or exception) neither stops
\* nor alters another one; when main finishes every file of the list has been
\* reported exactly once and success + failed is the number of files; the two
\* counters are changed by the main thread only.
C12_PoolBoundedIsolatedAllReported ==
    []DownloadState /\ [][CountersStep]_vars

C12_Witness ==
    /\ d_pc = "done"
    /\ num_threads = max_workers
    /\ failed = 2
    /\ success = Len(PDF_FILES) - 2
    /\ \E i \in FileIndices, j \in FileIndices :
          /\ responses[i].kind = "raised"
          /\ responses[j].kind = "answered"
          /\ responses[j].status_code = 404
          /\ ~ReportsOf(i)[1].ok
          /\ ~ReportsOf(j)[1].ok

====
